---- MODULE Spec2Model ----
(***************************************************************************)
(* Model of neo4j-testcontainers (src/src/lib.rs): the Neo4j configuration *)
(* builder, the derivation of the container environment in build(), and    *)
(* the Neo4jImage handle with its post-start state slot.                   *)
(*                                                                         *)
(* Strings are sequences of one-character strings, so that formatting,     *)
(* trimming, parsing and comparison are computed and not assumed.          *)
(***************************************************************************)
EXTENDS Integers, Sequences, FiniteSets, TLC

VARIABLES
  environ,      \* the process environment: variable name -> Option<String>
  licenseFile,  \* container-license-acceptance.txt in the current directory
  neo4j,        \* the Neo4j builder value the caller holds
  result,       \* outcome of the last builder call (Ok / Err with its message)
  image,        \* the Neo4jImage produced by build(), NoImage before
  started,      \* history: the container states handed to exec_after_start
  ret           \* outcome of the last accessor call on the image

vars == <<environ, licenseFile, neo4j, result, image, started, ret>>

----------------------------------------------------------------------------
(* Option<T> and Result<T, E> *)

None == [some |-> FALSE]

Some(x) == [some |-> TRUE, val |-> x]

Ok(x) == [ok |-> TRUE, val |-> x]

Err(e) == [ok |-> FALSE, err |-> e]

----------------------------------------------------------------------------
(* Characters and strings *)

\* The characters the model uses, in ascending byte order (str's Ord is bytewise).
AsciiOrder ==
  <<"\t", " ", "+", "-", ".", "/",
    "0", "1", "2", "3", "4", "5", "6", "7", "8", "9", ":",
    "B", "P", "V", "[", "]", "a", "b", "c", "d", "e", "g", "h", "i", "j", "l", "m", "n",
    "o", "p", "r", "s", "t", "u", "v", "w", "x", "y", "z">>

Code(c) == CHOOSE i \in 1..Len(AsciiOrder) : AsciiOrder[i] = c

Digits == {"0", "1", "2", "3", "4", "5", "6", "7", "8", "9"}

Whitespace == {" ", "\t"}

DigitOf(n) == AsciiOrder[Code("0") + n]

\* usize::to_string
RECURSIVE to_string(_)
to_string(n) == IF n < 10 THEN <<DigitOf(n)>>
               ELSE to_string(n \div 10) \o <<DigitOf(n % 10)>>

\* str::cmp: bytewise lexicographic, -1 / 0 / 1
RECURSIVE StrCmp(_, _)
StrCmp(a, b) ==
  IF a = <<>> /\ b = <<>> THEN 0
  ELSE IF a = <<>> THEN -1
  ELSE IF b = <<>> THEN 1
  ELSE IF Code(Head(a)) < Code(Head(b)) THEN -1
  ELSE IF Code(Head(a)) > Code(Head(b)) THEN 1
  ELSE StrCmp(Tail(a), Tail(b))

RECURSIVE TrimStart(_)
TrimStart(s) == IF s # <<>> /\ Head(s) \in Whitespace THEN TrimStart(Tail(s)) ELSE s

RECURSIVE TrimEnd(_)
TrimEnd(s) == IF s # <<>> /\ s[Len(s)] \in Whitespace
              THEN TrimEnd(SubSeq(s, 1, Len(s) - 1)) ELSE s

\* str::trim
Trim(s) == TrimEnd(TrimStart(s))

EndsWith(s, suffix) ==
  /\ Len(s) >= Len(suffix)
  /\ SubSeq(s, Len(s) - Len(suffix) + 1, Len(s)) = suffix

----------------------------------------------------------------------------
(* Program literals *)

DEFAULT_USER == <<"n", "e", "o", "4", "j">>

DEFAULT_PASS == <<"n", "e", "o">>

DEFAULT_VERSION_TAG == <<"5">>

ACCEPTANCE_FILE_NAME == "container-license-acceptance.txt"

IMAGE_PREFIX == <<"n", "e", "o", "4", "j", ":">>

ENTERPRISE_SUFFIX == <<"-", "e", "n", "t", "e", "r", "p", "r", "i", "s", "e">>

AUTH_NONE == <<"n", "o", "n", "e">>

YES == <<"y", "e", "s">>

KEY_LICENSE == "NEO4J_ACCEPT_LICENSE_AGREEMENT"

KEY_AUTH == "NEO4J_AUTH"

KEY_PLUGINS == "NEO4JLABS_PLUGINS"

KEY_MIN_PASS == "NEO4J_dbms_security_auth__minimum__password__length"

MIN_PASSWORD_LENGTH == 8

BOLT_PORT == 7687

HTTP_PORT == 7474

----------------------------------------------------------------------------
(* enum Value and its resolution *)

ValueEnv(var, fallback) == [tag |-> "Env", var |-> var, fallback |-> fallback]

ValueDefault(v) == [tag |-> "Default", value |-> v]

ValueValue(v) == [tag |-> "Value", value |-> v]

ValueUnset == [tag |-> "Unset"]

\* Neo4j::value, reading the process environment env
value(env, v) ==
  CASE v.tag = "Env" -> Some(IF env[v.var].some THEN env[v.var].val ELSE v.fallback)
    [] v.tag = "Default" -> Some(v.value)
    [] v.tag = "Value" -> Some(v.value)
    [] v.tag = "Unset" -> None

----------------------------------------------------------------------------
(* Constructors *)

new ==
  [version |-> ValueDefault(DEFAULT_VERSION_TAG),
   user |-> ValueDefault(DEFAULT_USER),
   pass |-> ValueDefault(DEFAULT_PASS),
   enterprise |-> FALSE,
   plugins |-> <<>>]

from_env ==
  [version |-> ValueEnv("NEO4J_VERSION_TAG", DEFAULT_VERSION_TAG),
   user |-> ValueEnv("NEO4J_TEST_USER", DEFAULT_USER),
   pass |-> ValueEnv("NEO4J_TEST_PASS", DEFAULT_PASS),
   enterprise |-> FALSE,
   plugins |-> <<>>]

----------------------------------------------------------------------------
(* with_version: lenient_semver::parse_into::<ValidateVersion> *)

Letters == {AsciiOrder[i] : i \in Code("B")..Code("V")} \cup
           {AsciiOrder[i] : i \in Code("a")..Code("z")}

\* u64::MAX, the largest value of a numeric version component (_num: u64)
U64_MAX == <<"1", "8", "4", "4", "6", "7", "4", "4", "0", "7",
             "3", "7", "0", "9", "5", "5", "1", "6", "1", "5">>

RECURSIVE StripZeros(_)
StripZeros(ds) == IF Len(ds) > 1 /\ Head(ds) = "0" THEN StripZeros(Tail(ds)) ELSE ds

\* whether a run of digits is a number that fits a u64
FitsU64(ds) ==
  LET d == StripZeros(ds)
  IN  Len(d) < Len(U64_MAX) \/ (Len(d) = Len(U64_MAX) /\ StrCmp(d, U64_MAX) <= 0)

\* length of the run of digits s starts with
RECURSIVE DigitRun(_)
DigitRun(s) == IF s # <<>> /\ Head(s) \in Digits THEN 1 + DigitRun(Tail(s)) ELSE 0

\* position of the first c in s, 0 if there is none
RECURSIVE IndexOf(_, _)
IndexOf(s, c) ==
  IF s = <<>> THEN 0
  ELSE IF Head(s) = c THEN 1
  ELSE LET i == IndexOf(Tail(s), c) IN IF i = 0 THEN 0 ELSE i + 1

\* a non-empty pre-release or build identifier list
IsIdentifiers(s) ==
  /\ s # <<>>
  /\ \A i \in 1..Len(s) : s[i] \in Digits \cup Letters \cup {".", "-"}

\* struct ValidateVersion(bool) and its VersionBuilder callbacks
ValidateVersion_new == TRUE

ValidateVersion_build(v) == v

add_additional(v) == FALSE

add_pre_release(v) == FALSE

add_build(v) == FALSE

\* the input after a pre-release or build separator: `pre` tells which
ParseTail(text, pre, v) ==
  LET plus == IndexOf(text, "+")
      first == IF pre /\ plus > 0 THEN SubSeq(text, 1, plus - 1) ELSE text
      build == IF pre /\ plus > 0 THEN SubSeq(text, plus + 1, Len(text)) ELSE <<>>
  IN  IF ~IsIdentifiers(first) \/ (pre /\ plus > 0 /\ ~IsIdentifiers(build))
      THEN Err("UnexpectedInput")
      ELSE IF ~pre THEN Ok(add_build(v))
      ELSE IF plus > 0 THEN Ok(add_build(add_pre_release(v)))
      ELSE Ok(add_pre_release(v))

\* the input after the n-th numeric component
RECURSIVE ParseRest(_, _, _)
ParseRest(rest, n, v) ==
  IF rest = <<>> THEN Ok(v)
  ELSE
    LET c == Head(rest)
        t == Tail(rest)
        k == DigitRun(t)
        numeric == /\ k > 0
                   /\ FitsU64(SubSeq(t, 1, k))
                   /\ (k = Len(t) \/ t[k + 1] \in {".", "-", "+"})
    IN  CASE c = "." /\ numeric ->
               ParseRest(SubSeq(t, k + 1, Len(t)), n + 1,
                         IF n >= 3 THEN add_additional(v) ELSE v)
          [] c = "." /\ ~numeric /\ t # <<>> -> ParseTail(t, TRUE, v)
          [] c = "-" /\ t # <<>> -> ParseTail(t, TRUE, v)
          [] c = "+" /\ t # <<>> -> ParseTail(t, FALSE, v)
          [] OTHER -> Err("UnexpectedInput")

\* lenient_semver::parse_into::<ValidateVersion>(input)
parse_into(input) ==
  LET s == IF input # <<>> /\ Head(input) \in {"v", "V"} THEN Tail(input) ELSE input
      k == DigitRun(s)
  IN  IF k = 0 \/ ~FitsU64(SubSeq(s, 1, k)) THEN Err("MissingMajorNumber")
      ELSE LET r == ParseRest(SubSeq(s, k + 1, Len(s)), 1, ValidateVersion_new)
           IN  IF r.ok THEN Ok(ValidateVersion_build(r.val)) ELSE r

\* a deliberately broken with_version that stores the literal without the check
with_version_unchecked(self, version) ==
  Ok([self EXCEPT !.version = ValueValue(version)])

\* a broken with_version that pads the literal to MAJOR.MINOR.PATCH
with_version_normalized(self, version) ==
  LET parsed == parse_into(version)
      dots == Cardinality({i \in 1..Len(version) : version[i] = "."})
      padded == CASE dots = 0 -> version \o <<".", "0", ".", "0">>
                  [] dots = 1 -> version \o <<".", "0">>
                  [] OTHER -> version
  IN  IF ~(parsed.ok /\ parsed.val)
      THEN Err(<<"Invalid version: ", version>>)
      ELSE Ok([self EXCEPT !.version = ValueValue(padded)])

\* Neo4j::with_version
with_version(self, version) ==
  LET parsed == parse_into(version)
      version_valid == IF parsed.ok THEN parsed.val ELSE FALSE
  IN  IF ~version_valid
      THEN Err(<<"Invalid version: ", version>>)
      ELSE Ok([self EXCEPT !.version = ValueValue(version)])

----------------------------------------------------------------------------
(* The other mutators *)

\* Neo4j::with_user
with_user(self, user) == [self EXCEPT !.user = ValueValue(user)]

\* Neo4j::with_password
with_password(self, pass) == [self EXCEPT !.pass = ValueValue(pass)]

\* Neo4j::without_authentication
without_authentication(self) ==
  [self EXCEPT !.user = ValueUnset, !.pass = ValueUnset]

\* the lines of the acceptance file that can be read, as the iterator chain of
\* with_enterprise_edition yields them: none unless the directory is known and
\* the file opens
AcceptanceLines(file) == IF file.tag = "file" THEN file.lines ELSE <<>>

\* the literal pieces of the license message (its quoting and line breaks left out)
LICENSE_MESSAGE_HEAD ==
  "You need to accept the Neo4j Enterprise Edition license by creating a file named "

LICENSE_MESSAGE_TAIL ==
  " in the current directory and adding the following line to it: "

\* a broken license check that compares the lines untrimmed
with_enterprise_edition_untrimmed(env, file, self) ==
  LET img == IMAGE_PREFIX \o value(env, self.version).val \o ENTERPRISE_SUFFIX
      lines == AcceptanceLines(file)
  IN  IF ~(\E i \in 1..Len(lines) : lines[i].ok /\ lines[i].val = img)
      THEN Err(<<LICENSE_MESSAGE_HEAD, ACCEPTANCE_FILE_NAME, LICENSE_MESSAGE_TAIL, img>>)
      ELSE Ok([self EXCEPT !.enterprise = TRUE])

\* Neo4j::with_enterprise_edition
with_enterprise_edition(env, file, self) ==
  LET version == value(env, self.version).val
      img == IMAGE_PREFIX \o version \o ENTERPRISE_SUFFIX
      lines == AcceptanceLines(file)
      has_license_acceptance ==
        \E i \in 1..Len(lines) : lines[i].ok /\ Trim(lines[i].val) = img
  IN  IF ~has_license_acceptance
      THEN Err(<<LICENSE_MESSAGE_HEAD, ACCEPTANCE_FILE_NAME, LICENSE_MESSAGE_TAIL, img>>)
      ELSE Ok([self EXCEPT !.enterprise = TRUE])

\* Neo4j::with_neo4j_labs_plugin
with_neo4j_labs_plugin(self, plugins) == [self EXCEPT !.plugins = @ \o plugins]

----------------------------------------------------------------------------
(* enum Neo4jLabsPlugin: Display and the derived Ord *)

Apoc == [k |-> "Apoc"]

ApocCore == [k |-> "ApocCore"]

Bloom == [k |-> "Bloom"]

Streams == [k |-> "Streams"]

GraphDataScience == [k |-> "GraphDataScience"]

NeoSemantics == [k |-> "NeoSemantics"]

Custom(plugin_name) == [k |-> "Custom", name |-> plugin_name]

\* impl Display for Neo4jLabsPlugin
Display(p) ==
  CASE p.k = "Apoc" -> <<"a", "p", "o", "c">>
    [] p.k = "ApocCore" -> <<"a", "p", "o", "c", "-", "c", "o", "r", "e">>
    [] p.k = "Bloom" -> <<"b", "l", "o", "o", "m">>
    [] p.k = "Streams" -> <<"s", "t", "r", "e", "a", "m", "s">>
    [] p.k = "GraphDataScience" ->
         <<"g", "r", "a", "p", "h", "-", "d", "a", "t", "a", "-",
           "s", "c", "i", "e", "n", "c", "e">>
    [] p.k = "NeoSemantics" -> <<"n", "1", "0", "s">>
    [] p.k = "Custom" -> p.name

\* position of the variant in the enum declaration, which #[derive(Ord)] compares first
VariantIndex(p) ==
  CASE p.k = "Apoc" -> 0
    [] p.k = "ApocCore" -> 1
    [] p.k = "Bloom" -> 2
    [] p.k = "Streams" -> 3
    [] p.k = "GraphDataScience" -> 4
    [] p.k = "NeoSemantics" -> 5
    [] p.k = "Custom" -> 6

\* #[derive(PartialOrd, Ord)] on Neo4jLabsPlugin: -1 / 0 / 1
plugin_cmp(a, b) ==
  IF VariantIndex(a) < VariantIndex(b) THEN -1
  ELSE IF VariantIndex(a) > VariantIndex(b) THEN 1
  ELSE IF a.k = "Custom" THEN StrCmp(a.name, b.name)
  ELSE 0

RECURSIVE InsertSorted(_, _)
InsertSorted(s, x) ==
  IF s = <<>> THEN <<x>>
  ELSE IF plugin_cmp(s[Len(s)], x) <= 0 THEN Append(s, x)
  ELSE Append(InsertSorted(SubSeq(s, 1, Len(s) - 1), x), s[Len(s)])

\* a broken sort that leaves the plugins in call order
sort_skipped(s) == s

\* Vec::sort (stable) under plugin_cmp
RECURSIVE sort(_)
sort(s) ==
  IF s = <<>> THEN <<>>
  ELSE InsertSorted(sort(SubSeq(s, 1, Len(s) - 1)), s[Len(s)])

\* Vec::dedup: drops each element equal to the one before it
RECURSIVE dedup(_)
dedup(s) ==
  IF Len(s) <= 1 THEN s
  ELSE LET d == dedup(SubSeq(s, 1, Len(s) - 1))
       IN  IF d[Len(d)] = s[Len(s)] THEN d ELSE Append(d, s[Len(s)])

----------------------------------------------------------------------------
(* build: the derived environment and the Neo4jImage *)

RECURSIVE Join(_, _)
Join(parts, sep) ==
  IF parts = <<>> THEN <<>>
  ELSE IF Len(parts) = 1 THEN parts[1]
  ELSE parts[1] \o sep \o Join(Tail(parts), sep)

\* HashMap::new and HashMap::insert of the items an Option yields
HashMap_new == <<>>

Insert(env_vars, item) ==
  IF ~item.some THEN env_vars
  ELSE [key \in DOMAIN env_vars \cup {item.val[1]} |->
          IF key = item.val[1] THEN item.val[2] ELSE env_vars[key]]

\* Neo4j::enterprise_env
enterprise_env(self) ==
  IF self.enterprise THEN Some(<<KEY_LICENSE, YES>>) ELSE None

\* a broken auth_env that falls back to the default user when only the user is unset
auth_env_default_user(env, self) ==
  LET user == value(env, self.user)
      pass == value(env, self.pass)
      auth == IF pass.some
              THEN (IF user.some THEN user.val ELSE DEFAULT_USER) \o <<"/">> \o pass.val
              ELSE AUTH_NONE
  IN  Some(<<KEY_AUTH, auth>>)

\* Neo4j::auth_env
auth_env(env, self) ==
  LET user == value(env, self.user)
      pass == value(env, self.pass)
      auth == IF user.some /\ pass.some
              THEN user.val \o <<"/">> \o pass.val
              ELSE AUTH_NONE
  IN  Some(<<KEY_AUTH, auth>>)

\* Neo4j::plugins_env
plugins_env(self) ==
  IF self.plugins = <<>> THEN None
  ELSE LET plugin_names ==
             Join([i \in 1..Len(self.plugins) |->
                     <<"\"">> \o Display(self.plugins[i]) \o <<"\"">>], <<",">>)
           plugin_definition == <<"[">> \o plugin_names \o <<"]">>
       IN  Some(<<KEY_PLUGINS, plugin_definition>>)

\* a broken conf_env whose length test is off by one
conf_env_inclusive(env, self) ==
  LET pass == value(env, self.pass)
  IN  IF ~pass.some THEN None
      ELSE IF Len(pass.val) <= MIN_PASSWORD_LENGTH
      THEN Some(<<KEY_MIN_PASS, to_string(Len(pass.val))>>)
      ELSE None

\* Neo4j::conf_env
conf_env(env, self) ==
  LET pass == value(env, self.pass)
  IN  IF ~pass.some THEN None
      ELSE IF Len(pass.val) < MIN_PASSWORD_LENGTH
      THEN Some(<<KEY_MIN_PASS, to_string(Len(pass.val))>>)
      ELSE None

\* Neo4j::build
build(env, self0) ==
  LET self == [self0 EXCEPT !.plugins = dedup(sort(self0.plugins))]
      env_vars ==
        Insert(Insert(Insert(Insert(HashMap_new,
          enterprise_env(self)), auth_env(env, self)), plugins_env(self)),
          conf_env(env, self))
      user == value(env, self.user)
      pass == value(env, self.pass)
      auth == IF user.some /\ pass.some THEN Some(<<user.val, pass.val>>) ELSE None
      version == value(env, self.version).val
                   \o (IF self.enterprise THEN ENTERPRISE_SUFFIX ELSE <<>>)
  IN  [version |-> version, auth |-> auth, env_vars |-> env_vars, state |-> None]

----------------------------------------------------------------------------
(* Neo4jImage: accessors and the post-start callback *)

Returned(x) == [panic |-> FALSE, val |-> x]

Panic(message) == [panic |-> TRUE, message |-> message]

EXPECT_STARTED == "Container must be started before URI can be retrieved"

\* ContainerState::host_port_ipv4 / host_port_ipv6
host_port_ipv4(cs, port) == cs.ipv4[port]

host_port_ipv6(cs, port) == cs.ipv6[port]

\* Neo4jImage::version
version(img) == img.version

\* Neo4jImage::auth
auth(img) == img.auth

\* Neo4jImage::user
user(img) == IF auth(img).some THEN Some(auth(img).val[1]) ELSE None

\* Neo4jImage::password
password(img) == IF auth(img).some THEN Some(auth(img).val[2]) ELSE None

\* a broken accessor that answers with port 0 before the container has started
bolt_uri_ipv4_unstarted(img) ==
  IF ~img.state.some THEN Returned(<<"bolt://127.0.0.1:", 0>>)
  ELSE Returned(<<"bolt://127.0.0.1:", host_port_ipv4(img.state.val, BOLT_PORT)>>)

\* Neo4jImage::bolt_uri_ipv4; the formatted URI is kept as <<prefix, port>>
bolt_uri_ipv4(img) ==
  IF ~img.state.some THEN Panic(EXPECT_STARTED)
  ELSE Returned(<<"bolt://127.0.0.1:", host_port_ipv4(img.state.val, BOLT_PORT)>>)

\* Neo4jImage::bolt_uri_ipv6
bolt_uri_ipv6(img) ==
  IF ~img.state.some THEN Panic(EXPECT_STARTED)
  ELSE Returned(<<"bolt://[::1]:", host_port_ipv6(img.state.val, BOLT_PORT)>>)

\* Neo4jImage::http_uri_ipv4
http_uri_ipv4(img) ==
  IF ~img.state.some THEN Panic(EXPECT_STARTED)
  ELSE Returned(<<"http://127.0.0.1:", host_port_ipv4(img.state.val, HTTP_PORT)>>)

\* Neo4jImage::http_uri_ipv6
http_uri_ipv6(img) ==
  IF ~img.state.some THEN Panic(EXPECT_STARTED)
  ELSE Returned(<<"http://[::1]:", host_port_ipv6(img.state.val, HTTP_PORT)>>)

\* a write-once exec_after_start that keeps the state it already holds
exec_after_start_once(img, cs) ==
  IF img.state.some THEN img ELSE [img EXCEPT !.state = Some(cs)]

\* Image::exec_after_start: the image after the call (no commands are returned)
exec_after_start(img, cs) == [img EXCEPT !.state = Some(cs)]

----------------------------------------------------------------------------
(* Bounds and inputs of the model *)

\* most plugins a builder accumulates
MaxPlugins == 2

\* most plugins one with_neo4j_labs_plugin call passes
MaxSlice == 2

\* most exec_after_start calls on one image
MaxStarts == 2

\* longest generated version literal
MaxVersionLen == 3

\* most plugins a builder accumulates when only plugins are configured
MaxPluginsWide == 3

\* all sequences over alphabet of length at most n
SeqsUpTo(alphabet, n) == UNION {[1..k -> alphabet] : k \in 0..n}

EnvEmpty ==
  [var \in {"NEO4J_VERSION_TAG", "NEO4J_TEST_USER", "NEO4J_TEST_PASS"} |-> None]

EnvSet ==
  [var \in {"NEO4J_VERSION_TAG", "NEO4J_TEST_USER", "NEO4J_TEST_PASS"} |->
     CASE var = "NEO4J_VERSION_TAG" -> Some(<<"4", ".", "4">>)
       [] var = "NEO4J_TEST_USER" -> Some(<<"a", "d", "m", "i", "n">>)
       [] var = "NEO4J_TEST_PASS" -> Some(<<"s", "e", "c", "r", "e", "t">>)]

Environments == {EnvEmpty, EnvSet}

\* the acceptance file: the working directory is unknown, the file is missing,
\* it cannot be opened, or it opens and yields lines (a line can fail to read)
LicenseFiles ==
  {[tag |-> "no_cwd"], [tag |-> "missing"], [tag |-> "unreadable"],
   [tag |-> "file", lines |->
      <<Ok(<<"n", "e", "o", "4", "j", ":", "5", "-", "c", "o", "m", "m", "u", "n", "i", "t", "y">>),
        Ok(<<"n", "e", "o", "4", "j", ":", "5", "-", "e", "n", "t", "e", "r", "p", "r", "i", "s", "e", " ", "x">>)>>],
   [tag |-> "file", lines |->
      <<Err("InvalidData"),
        Ok(<<" ", " ", "n", "e", "o", "4", "j", ":", "5", "-", "e", "n", "t", "e", "r", "p", "r", "i", "s", "e", "\t">>)>>],
   [tag |-> "file", lines |->
      <<Ok(<<"n", "e", "o", "4", "j", ":", "4", ".", "4", "-", "e", "n", "t", "e", "r", "p", "r", "i", "s", "e">>),
        Ok(<<"n", "e", "o", "4", "j", ":", "4", ".", "2", "-", "e", "n", "t", "e", "r", "p", "r", "i", "s", "e">>)>>]}

VersionInputs ==
  {<<"4", ".", "2">>,
   <<"4", ".", "2", ".", "0", "-", "e", "n", "t", "e", "r", "p", "r", "i", "s", "e">>}

UserInputs == {<<"B", "e", "n", "u", "t", "z", "e", "r">>}

PasswordInputs ==
  {<<"1", "3", "3", "7">>,
   <<"1", "2", "3", "4", "5", "6", "7">>,
   <<"P", "a", "s", "s", "w", "o", "r", "t">>}

PluginInputs == {Apoc, Bloom}

\* literals the generated version strings are too short to contain
VersionLiterals ==
  {<<"4", ".", "2", ".", "0">>,
   <<"4", ".", "2", ".", "0", "-", "e", "n", "t", "e", "r", "p", "r", "i", "s", "e">>,
   <<"4", ".", "2", ".", "0", ".", "1">>,
   <<"4", ".", "2", ".", "0", "+", "b">>,
   <<"l", "o", "r", "e", "m", " ", "i", "p", "s", "u", "m">>,
   <<"v", "4">>,
   <<"v", "4", ".", "2">>,
   <<"v", "x">>,
   U64_MAX,
   <<"1", "8", "4", "4", "6", "7", "4", "4", "0", "7", "3", "7", "0", "9", "5", "5", "1", "6", "1", "6">>,
   <<"4", ".", "1", "8", "4", "4", "6", "7", "4", "4", "0", "7", "3", "7", "0", "9", "5", "5", "1", "6", "1", "6">>}

VersionAlphabet == {"4", ".", "-", "+", "x"}

VersionInputsWide == SeqsUpTo(VersionAlphabet, MaxVersionLen) \cup VersionLiterals

PluginInputsWide ==
  {Apoc, ApocCore, Bloom, Streams, GraphDataScience, NeoSemantics,
   Custom(<<"a", "p", "o", "c">>), Custom(<<"z", "e", "t", "a">>)}

ContainerStates ==
  {[ipv4 |-> (BOLT_PORT :> 32768 @@ HTTP_PORT :> 32769),
    ipv6 |-> (BOLT_PORT :> 32770 @@ HTTP_PORT :> 32771)],
   [ipv4 |-> (BOLT_PORT :> 49153 @@ HTTP_PORT :> 49154),
    ipv6 |-> (BOLT_PORT :> 49155 @@ HTTP_PORT :> 49156)]}

----------------------------------------------------------------------------
(* State machine *)

NoImage == [built |-> FALSE]

NoCall == [op |-> "none"]

Outcome(op, arg, r) ==
  [op |-> op, arg |-> arg, ok |-> r.ok, err |-> IF r.ok THEN <<>> ELSE r.err]

\* the caller keeps the builder it had when a fallible mutator fails
Kept(self, r) == IF r.ok THEN r.val ELSE self

InitWith(ctor, env, file) ==
  /\ environ = env
  /\ licenseFile = file
  /\ neo4j = (IF ctor = "new" THEN new ELSE from_env)
  /\ result = Outcome(ctor, <<>>, Ok(<<>>))
  /\ image = NoImage
  /\ started = <<>>
  /\ ret = NoCall

Init ==
  \E ctor \in {"new", "from_env"}, env \in Environments, file \in LicenseFiles :
    InitWith(ctor, env, file)

WithVersion(v) ==
  /\ image = NoImage
  /\ LET r == with_version(neo4j, v)
     IN  /\ neo4j' = Kept(neo4j, r)
         /\ result' = Outcome("with_version", v, r)
  /\ UNCHANGED <<environ, licenseFile, image, started, ret>>

WithUser(u) ==
  /\ image = NoImage
  /\ neo4j' = with_user(neo4j, u)
  /\ result' = Outcome("with_user", u, Ok(<<>>))
  /\ UNCHANGED <<environ, licenseFile, image, started, ret>>

WithPassword(p) ==
  /\ image = NoImage
  /\ neo4j' = with_password(neo4j, p)
  /\ result' = Outcome("with_password", p, Ok(<<>>))
  /\ UNCHANGED <<environ, licenseFile, image, started, ret>>

WithoutAuthentication ==
  /\ image = NoImage
  /\ neo4j' = without_authentication(neo4j)
  /\ result' = Outcome("without_authentication", <<>>, Ok(<<>>))
  /\ UNCHANGED <<environ, licenseFile, image, started, ret>>

WithEnterpriseEdition ==
  /\ image = NoImage
  /\ LET r == with_enterprise_edition(environ, licenseFile, neo4j)
     IN  /\ neo4j' = Kept(neo4j, r)
         /\ result' = Outcome("with_enterprise_edition", <<>>, r)
  /\ UNCHANGED <<environ, licenseFile, image, started, ret>>

WithNeo4jLabsPlugin(plugins, max) ==
  /\ image = NoImage
  /\ Len(neo4j.plugins) + Len(plugins) <= max
  /\ neo4j' = with_neo4j_labs_plugin(neo4j, plugins)
  /\ result' = Outcome("with_neo4j_labs_plugin", plugins, Ok(<<>>))
  /\ UNCHANGED <<environ, licenseFile, image, started, ret>>

\* build consumes the builder: neo4j stays as the configuration that was built
Build ==
  /\ image = NoImage
  /\ image' = build(environ, neo4j)
  /\ result' = Outcome("build", <<>>, Ok(<<>>))
  /\ UNCHANGED <<environ, licenseFile, neo4j, started, ret>>

ExecAfterStart(cs) ==
  /\ image # NoImage
  /\ Len(started) < MaxStarts
  /\ image' = exec_after_start(image, cs)
  /\ started' = Append(started, cs)
  /\ ret' = [op |-> "exec_after_start", out |-> Returned(<<>>)]
  /\ UNCHANGED <<environ, licenseFile, neo4j, result>>

Call(op, out) ==
  /\ image # NoImage
  /\ ret' = [op |-> op, out |-> out]
  /\ UNCHANGED <<environ, licenseFile, neo4j, result, image, started>>

GetVersion == Call("version", Returned(version(image)))

GetAuth == Call("auth", Returned(auth(image)))

GetUser == Call("user", Returned(user(image)))

GetPassword == Call("password", Returned(password(image)))

BoltUriIpv4 == Call("bolt_uri_ipv4", bolt_uri_ipv4(image))

BoltUriIpv6 == Call("bolt_uri_ipv6", bolt_uri_ipv6(image))

HttpUriIpv4 == Call("http_uri_ipv4", http_uri_ipv4(image))

HttpUriIpv6 == Call("http_uri_ipv6", http_uri_ipv6(image))

Next ==
  \/ \E v \in VersionInputs : WithVersion(v)
  \/ \E u \in UserInputs : WithUser(u)
  \/ \E p \in PasswordInputs : WithPassword(p)
  \/ WithoutAuthentication
  \/ WithEnterpriseEdition
  \/ \E plugins \in SeqsUpTo(PluginInputs, MaxSlice) :
       WithNeo4jLabsPlugin(plugins, MaxPlugins)
  \/ Build
  \/ \E cs \in ContainerStates : ExecAfterStart(cs)
  \/ GetVersion
  \/ GetAuth
  \/ GetUser
  \/ GetPassword
  \/ BoltUriIpv4
  \/ BoltUriIpv6
  \/ HttpUriIpv4
  \/ HttpUriIpv6

Spec == Init /\ [][Next]_vars

\* with_version on a fresh builder, over every short string and the literals
InitVersion == InitWith("new", EnvEmpty, [tag |-> "missing"])

NextVersion ==
  \/ \E v \in VersionInputsWide : WithVersion(v)
  \/ Build
  \/ GetVersion

SpecVersion == InitVersion /\ [][NextVersion]_vars

\* with_neo4j_labs_plugin on a fresh builder, over every plugin
InitPlugins == InitWith("new", EnvEmpty, [tag |-> "missing"])

NextPlugins ==
  \/ \E plugins \in SeqsUpTo(PluginInputsWide, MaxSlice) :
       WithNeo4jLabsPlugin(plugins, MaxPluginsWide)
  \/ Build

SpecPlugins == InitPlugins /\ [][NextPlugins]_vars

----------------------------------------------------------------------------
(* Properties *)

Built == image # NoImage

Resolved(v) == value(environ, v)

\* the line the acceptance file must hold for the version the builder resolves
ExpectedLine == IMAGE_PREFIX \o Resolved(neo4j.version).val \o ENTERPRISE_SUFFIX

\* the acceptance file can be read and one of its lines, trimmed, is the expected line
LicenseAccepted ==
  /\ licenseFile.tag = "file"
  /\ \E i \in 1..Len(licenseFile.lines) :
       /\ licenseFile.lines[i].ok
       /\ Trim(licenseFile.lines[i].val) = ExpectedLine

C1_CallOutcome ==
  result.op = "with_enterprise_edition" =>
    /\ result.ok <=> LicenseAccepted
    /\ result.ok => neo4j.enterprise
    /\ ~result.ok =>
         result.err = <<LICENSE_MESSAGE_HEAD, ACCEPTANCE_FILE_NAME,
                        LICENSE_MESSAGE_TAIL, ExpectedLine>>

C1_Handle ==
  Built =>
    /\ neo4j.enterprise =>
         /\ EndsWith(version(image), ENTERPRISE_SUFFIX)
         /\ KEY_LICENSE \in DOMAIN image.env_vars
         /\ image.env_vars[KEY_LICENSE] = YES
    /\ ~neo4j.enterprise => KEY_LICENSE \notin DOMAIN image.env_vars

C1_FailureKeepsBuilder ==
  (result'.op = "with_enterprise_edition" /\ ~result'.ok) =>
    /\ neo4j' = neo4j
    /\ neo4j.enterprise = FALSE => neo4j'.enterprise = FALSE

\* C1: with_enterprise_edition succeeds exactly when the acceptance file can be
\* read and holds, on some trimmed line, neo4j:<resolved version>-enterprise;
\* otherwise it fails with the message naming the file and that line and the
\* builder is left as it was (a failing call never marks it enterprise). A
\* handle built from an enterprise builder has a version ending in -enterprise
\* and NEO4J_ACCEPT_LICENSE_AGREEMENT=yes in its environment.
C1_EnterpriseLicenseGate ==
  /\ [](C1_CallOutcome /\ C1_Handle)
  /\ [][C1_FailureKeepsBuilder]_vars

\* an enterprise handle built after the padded line that follows an unreadable
\* line was accepted
C1_Witness ==
  /\ Built
  /\ neo4j.enterprise
  /\ licenseFile.tag = "file"
  /\ ~licenseFile.lines[1].ok
  /\ version(image) = <<"5", "-", "e", "n", "t", "e", "r", "p", "r", "i", "s", "e">>
  /\ image.env_vars[KEY_LICENSE] = YES

\* the components of a literal that is digits separated by single dots, <<>> else
RECURSIVE NumericComponents(_)
NumericComponents(s) ==
  LET k == DigitRun(s)
  IN  IF k = 0 THEN <<>>
      ELSE IF k = Len(s) THEN <<s>>
      ELSE IF s[k + 1] # "." THEN <<>>
      ELSE LET more == NumericComponents(SubSeq(s, k + 2, Len(s)))
           IN  IF more = <<>> THEN <<>> ELSE <<SubSeq(s, 1, k)>> \o more

Contains(s, c) == \E i \in 1..Len(s) : s[i] = c

\* a literal the claim C2 says is rejected: it has a pre-release or build
\* separator, more than three numeric components, or no leading number
MustBeRejected(s) ==
  \/ Contains(s, "-")
  \/ Contains(s, "+")
  \/ Len(NumericComponents(s)) > 3
  \/ s = <<>>
  \/ Head(s) \notin Digits \cup {"v", "V"}
  \/ (Head(s) \in {"v", "V"} /\ (Len(s) = 1 \/ s[2] \notin Digits))

\* the format check of with_version passes the literal
PassesFormatCheck(s) == parse_into(s).ok /\ parse_into(s).val

C2_CallOutcome ==
  (result.op = "with_version" /\ MustBeRejected(result.arg)) =>
    /\ ~result.ok
    /\ result.err = <<"Invalid version: ", result.arg>>

C2_ExplicitVersionChecked ==
  neo4j.version.tag = "Value" => PassesFormatCheck(neo4j.version.value)

C2_FailureKeepsVersion ==
  (result'.op = "with_version" /\ ~result'.ok) => neo4j'.version = neo4j.version

IsNumericVersion(s) == Len(NumericComponents(s)) \in 1..3

ComponentsFitU64(s) ==
  \A i \in 1..Len(NumericComponents(s)) : FitsU64(NumericComponents(s)[i])

C3_Accepted(s) ==
  /\ result.op = "with_version" /\ result.arg = s =>
       result.ok /\ neo4j.version = ValueValue(s)
  /\ (Built /\ ~neo4j.enterprise /\ neo4j.version = ValueValue(s)) =>
       version(image) = s

\* C3 as claimed: every literal MAJOR[.MINOR[.PATCH]] with purely numeric
\* segments is accepted by with_version and reported unchanged by the handle.
C3_EveryNumericVersionAccepted ==
  \A s \in VersionInputsWide : IsNumericVersion(s) => C3_Accepted(s)

\* C3, amended: every literal MAJOR[.MINOR[.PATCH]] whose numeric segments
\* each fit an unsigned 64-bit integer is accepted by with_version, and the
\* non-enterprise handle built from it reports exactly the literal.
C3_NumericVersionAccepted ==
  \A s \in VersionInputsWide :
    (IsNumericVersion(s) /\ ComponentsFitU64(s)) => C3_Accepted(s)

\* the handle built after with_version("4") reports "4", not "4.0.0"
C3_Witness ==
  /\ Built
  /\ neo4j.version = ValueValue(<<"4">>)
  /\ version(image) = <<"4">>

PluginSet == {neo4j.plugins[i] : i \in 1..Len(neo4j.plugins)}

\* the plugins of a set in ascending order
RECURSIVE Ascending(_)
Ascending(plugins) ==
  IF plugins = {} THEN <<>>
  ELSE LET least == CHOOSE p \in plugins : \A q \in plugins : plugin_cmp(p, q) <= 0
       IN  <<least>> \o Ascending(plugins \ {least})

RECURSIVE QuotedList(_)
QuotedList(plugins) ==
  IF plugins = <<>> THEN <<>>
  ELSE <<"\"">> \o Display(Head(plugins)) \o <<"\"">>
         \o (IF Len(plugins) > 1 THEN <<",">> ELSE <<>>) \o QuotedList(Tail(plugins))

\* the plugin entry as a function of the set of plugins alone
EntryOfSet(plugins) == <<"[">> \o QuotedList(Ascending(plugins)) \o <<"]">>

\* C4: the NEO4JLABS_PLUGINS entry of a built handle is a function of the set
\* of plugins added (whatever the call order and the duplicates), and it is
\* absent exactly when no plugin was added.
C4_PluginEntryDependsOnSetOnly ==
  Built =>
    /\ KEY_PLUGINS \in DOMAIN image.env_vars <=> PluginSet # {}
    /\ PluginSet # {} => image.env_vars[KEY_PLUGINS] = EntryOfSet(PluginSet)

\* [Apoc], then [Bloom, Apoc], built: the entry is ["apoc","bloom"]
C4_Witness ==
  /\ Built
  /\ neo4j.plugins = <<Apoc, Bloom, Apoc>>
  /\ image.env_vars[KEY_PLUGINS] = <<"[", "\"", "a", "p", "o", "c", "\"", ",", "\"", "b", "l", "o", "o", "m", "\"", "]">>

\* C5: a built handle reports no auth pair (auth, user and password absent)
\* exactly when NEO4J_AUTH is none; otherwise NEO4J_AUTH is <user>/<password>
\* for the user and password the accessors report.
C5_AuthMatchesEnvironment ==
  Built =>
    /\ KEY_AUTH \in DOMAIN image.env_vars
    /\ ~auth(image).some <=> image.env_vars[KEY_AUTH] = AUTH_NONE
    /\ ~auth(image).some => ~user(image).some /\ ~password(image).some
    /\ auth(image).some =>
         /\ user(image).some /\ password(image).some
         /\ auth(image).val = <<user(image).val, password(image).val>>
         /\ image.env_vars[KEY_AUTH] = user(image).val \o <<"/">> \o password(image).val
    /\ (neo4j.user = ValueUnset /\ neo4j.pass = ValueUnset) =>
         /\ image.env_vars[KEY_AUTH] = AUTH_NONE
         /\ ~user(image).some /\ ~password(image).some

\* without_authentication().build() on a fresh builder
C5_Witness ==
  /\ Built
  /\ neo4j = without_authentication(new)
  /\ image.env_vars[KEY_AUTH] = AUTH_NONE
  /\ ~user(image).some
  /\ ~password(image).some

\* C6: the password-length override is in the environment, with the length of
\* the resolved password as its value, exactly when authentication is enabled
\* and the password is shorter than 8.
C6_OverrideIffAuthAndShortPassword ==
  Built =>
    /\ KEY_MIN_PASS \in DOMAIN image.env_vars <=>
         (auth(image).some /\ Len(password(image).val) < MIN_PASSWORD_LENGTH)
    /\ KEY_MIN_PASS \in DOMAIN image.env_vars =>
         image.env_vars[KEY_MIN_PASS] = to_string(Len(password(image).val))
    /\ image.env_vars[KEY_AUTH] = AUTH_NONE => KEY_MIN_PASS \notin DOMAIN image.env_vars

\* the handle build() would produce from the builder as it is
Handle == build(environ, neo4j)

AuthEnabled(img) == img.auth.some /\ img.env_vars[KEY_AUTH] # AUTH_NONE

\* C7: the last of without_authentication and with_user / with_password
\* decides: after without_authentication the handle has no auth pair and
\* NEO4J_AUTH is none; after a later with_user or with_password it has an auth
\* pair and NEO4J_AUTH is not none.
C7_LastCallWins ==
  /\ result.op = "without_authentication" => ~AuthEnabled(Handle)
  /\ result.op \in {"with_user", "with_password"} => AuthEnabled(Handle)

UriCalls == {"bolt_uri_ipv4", "bolt_uri_ipv6", "http_uri_ipv4", "http_uri_ipv6"}

\* C8: while exec_after_start has not been called on the handle, each endpoint
\* accessor panics and returns no endpoint; version, auth, user and password
\* return their values all the same.
C8_EndpointsPanicBeforeStart ==
  (Built /\ started = <<>>) =>
    /\ bolt_uri_ipv4(image).panic
    /\ bolt_uri_ipv6(image).panic
    /\ http_uri_ipv4(image).panic
    /\ http_uri_ipv6(image).panic
    /\ ret.op \in UriCalls => ret.out = Panic(EXPECT_STARTED)
    /\ ret.op = "version" => ret.out = Returned(image.version)
    /\ ret.op = "user" => ret.out = Returned(user(image))
    /\ ret.op = "password" => ret.out = Returned(password(image))

\* bolt_uri_ipv4 was called before any exec_after_start and panicked
C8_Witness ==
  /\ Built
  /\ started = <<>>
  /\ ret.op = "bolt_uri_ipv4"
  /\ ret.out.panic

\* what the endpoint accessors answer when the slot holds cs
Endpoint(op, cs) ==
  CASE op = "bolt_uri_ipv4" -> <<"bolt://127.0.0.1:", cs.ipv4[BOLT_PORT]>>
    [] op = "bolt_uri_ipv6" -> <<"bolt://[::1]:", cs.ipv6[BOLT_PORT]>>
    [] op = "http_uri_ipv4" -> <<"http://127.0.0.1:", cs.ipv4[HTTP_PORT]>>
    [] op = "http_uri_ipv6" -> <<"http://[::1]:", cs.ipv6[HTTP_PORT]>>

\* the slot is unset until the first exec_after_start, and then holds, and the
\* endpoint accessors answer from, the state of the exec_after_start call `pick`
SlotHolds(pick) ==
  Built =>
    /\ started = <<>> <=> ~image.state.some
    /\ started # <<>> =>
         /\ image.state = Some(started[pick])
         /\ \A op \in UriCalls :
              (CASE op = "bolt_uri_ipv4" -> bolt_uri_ipv4(image)
                 [] op = "bolt_uri_ipv6" -> bolt_uri_ipv6(image)
                 [] op = "http_uri_ipv4" -> http_uri_ipv4(image)
                 [] op = "http_uri_ipv6" -> http_uri_ipv6(image))
                = Returned(Endpoint(op, started[pick]))
         /\ ret.op \in UriCalls => ret.out = Returned(Endpoint(ret.op, started[pick]))

DerivedItems ==
  {item \in {enterprise_env(neo4j), auth_env(environ, neo4j),
             plugins_env([neo4j EXCEPT !.plugins = dedup(sort(@))]),
             conf_env(environ, neo4j)} : item.some}

\* C10: the environment of a built handle holds exactly the entries of the four
\* derivation steps, each under its own key; for a fresh builder with only
\* with_password(p), p of length 8 or more, it is the one entry
\* NEO4J_AUTH=neo4j/<p>.
C10_ExactEnvironment ==
  Built =>
    /\ Cardinality({KEY_LICENSE, KEY_AUTH, KEY_PLUGINS, KEY_MIN_PASS}) = 4
    /\ DOMAIN image.env_vars = {item.val[1] : item \in DerivedItems}
    /\ \A item \in DerivedItems : image.env_vars[item.val[1]] = item.val[2]
    /\ \A p \in PasswordInputs :
         (neo4j = with_password(new, p) /\ Len(p) >= MIN_PASSWORD_LENGTH) =>
           /\ DOMAIN image.env_vars = {KEY_AUTH}
           /\ image.env_vars[KEY_AUTH] = DEFAULT_USER \o <<"/">> \o p

\* new().with_password("Passwort").build()
C10_Witness ==
  /\ Built
  /\ neo4j = with_password(new, <<"P", "a", "s", "s", "w", "o", "r", "t">>)
  /\ DOMAIN image.env_vars = {KEY_AUTH}
  /\ image.env_vars[KEY_AUTH] = <<"n", "e", "o", "4", "j", "/", "P", "a", "s", "s", "w", "o", "r", "t">>

\* the canonical display forms of the plugins added
DisplayForms == {Display(p) : p \in PluginSet}

\* the strings of a set in ascending bytewise order, each once
RECURSIVE AscendingForms(_)
AscendingForms(forms) ==
  IF forms = {} THEN <<>>
  ELSE LET least == CHOOSE f \in forms : \A g \in forms : StrCmp(f, g) <= 0
       IN  <<least>> \o AscendingForms(forms \ {least})

\* the strings of a sequence, each quoted, joined by commas
QuotedForms(forms) ==
  Join([i \in 1..Len(forms) |-> <<"\"">> \o forms[i] \o <<"\"">>], <<",">>)

\* C11: when plugins were added, the NEO4JLABS_PLUGINS entry of a built handle
\* lists their display forms in ascending order (apoc, apoc-core, bloom,
\* graph-data-science, n10s, streams, Custom names in their place), each
\* display form once, quoted, joined by commas and wrapped in brackets.
C11_EntryAscendingByDisplayForm ==
  (Built /\ PluginSet # {}) =>
    /\ KEY_PLUGINS \in DOMAIN image.env_vars
    /\ image.env_vars[KEY_PLUGINS] =
         <<"[">> \o QuotedForms(AscendingForms(DisplayForms)) \o <<"]">>

\* the line the acceptance file must hold for the tag the built handle reports
LineOfHandle == IMAGE_PREFIX \o version(image)

\* C12: every built handle whose tag is <V>-enterprise was license-checked for
\* that tag: the acceptance file can be read and holds, on some trimmed line,
\* neo4j:<V>-enterprise for the version V the handle reports, whatever mutator
\* calls came before build (with_version after with_enterprise_edition too).
C12_EnterpriseTagWasLicensed ==
  (Built /\ EndsWith(version(image), ENTERPRISE_SUFFIX)) =>
    /\ licenseFile.tag = "file"
    /\ \E i \in 1..Len(licenseFile.lines) :
         /\ licenseFile.lines[i].ok
         /\ Trim(licenseFile.lines[i].val) = LineOfHandle

====
